---- MODULE Spec2Model ----
(***************************************************************************)
(* The multiplayer turn/session coordinator of backend/server.js: the      *)
(* /api/game/action and /api/game/join handlers running as asynchronous    *)
(* route handlers over ONE shared SQLite connection (`let db`).  Every     *)
(* `await` of a handler is a point where another handler may run, so each  *)
(* awaited statement is one step of the model.                             *)
(*                                                                         *)
(* The connection is modelled as SQLite behaves for a single connection:   *)
(* all handlers read the same working state `db` (uncommitted rows         *)
(* included), BEGIN fails when a transaction is already open, COMMIT and   *)
(* ROLLBACK fail when none is open, a statement run while no transaction   *)
(* is open is committed at once, and COMMIT / ROLLBACK end the open        *)
(* transaction whoever opened it.  `snap` is the committed state.           *)
(*                                                                         *)
(* The WebSocket side (connection, authenticate and disconnect listeners,  *)
(* the sessionSockets map) is modelled by `sock` and `sessionSockets`.     *)
(***************************************************************************)
EXTENDS Integers, FiniteSets, Sequences, TLC

VARIABLES db, snap, tx, sessionSockets, sock, imageProvider, req

vars == <<db, snap, tx, sessionSockets, sock, imageProvider, req>>
env == <<sessionSockets, sock, imageProvider>>
dbvars == <<db, snap, tx>>

\* ------------------------------------------------------------------ bounds
\* Number of HTTP requests of one behaviour of Spec (any body, any kind).
MaxPair == 2
\* Number of HTTP requests of one behaviour of SpecTriple (bodies of S1 only).
MaxReq == 3
\* Turns already appended to session S1 in the initial state: 0..MaxInitTurns.
MaxInitTurns == 1
\* Number of HTTP requests of one behaviour of SpecPresence.
MaxSolo == 2
\* Number of HTTP requests of one behaviour of SpecRegistry.
MaxOne == 1
\* Number of HTTP requests of one behaviour of SpecJoin (joins only).
MaxJoin == 4
\* Longest ledger (last turn index) of one behaviour of SpecConnectedOnly.
MaxLedger == 4

\* -------------------------------------------------------- program constants
\* SQL NULL in an INTEGER column (current_player_index of a single-player
\* session, acting_player_index of turn 0) and the -1 defaults of the handler.
NULL == -1
\* callLLM(combinedTurnPrompt, 3, false)
MaxRetries == 3

NoUser == "none"
Sessions == {"S1", "S2"}
Users == {"u1", "u2", "u3"}
Reqs == 1..MaxReq

\* ------------------------------------------------------------ row helpers
PlayerRow(u, i) == [user |-> u, idx |-> i]
TurnRow(i, u, ai) == [idx |-> i, actor |-> u, aidx |-> ai]

\* SELECT MAX(turn_index) ... ; maxTurnRow?.max_index ?? -1
MaxIndex(rows) ==
  IF rows = {} THEN NULL
  ELSE CHOOSE m \in {t.idx : t \in rows} : \A t \in rows : t.idx <= m

\* The state a crash or a ROLLBACK leaves: the committed rows.
Persisted == snap

\* ------------------------------------------------------ the connection
\* db.run("BEGIN") succeeds only when no transaction is open on the connection.
BeginOk == ~tx
\* db.run("COMMIT") / db.run("ROLLBACK") succeed only inside a transaction.
EndOk == tx

\* A write statement: inside a transaction it changes the working state only,
\* outside one it is committed at once (autocommit).
Write(newdb) ==
  /\ db' = newdb
  /\ snap' = IF tx THEN snap ELSE newdb
  /\ tx' = tx

DoBegin == tx' = TRUE /\ UNCHANGED <<db, snap>>
DoCommit == tx' = FALSE /\ snap' = db /\ UNCHANGED db
DoRollback == tx' = FALSE /\ db' = snap /\ UNCHANGED snap
\* A ROLLBACK whose error is swallowed (`.catch(...)`, try/catch around it).
TryRollback == IF EndOk THEN DoRollback ELSE UNCHANGED <<db, snap, tx>>

\* ------------------------------------------------------------ requests
NewReq ==
  [kind |-> "none", pc |-> "idle", sid |-> "S1", uid |-> "u1", src |-> 0,
   cpi |-> NULL, mp |-> FALSE, goalRead |-> FALSE, players |-> {},
   pidx |-> NULL, latest |-> NULL, attempt |-> 0,
   met |-> {}, goal |-> FALSE, next |-> NULL, ret |-> 0,
   code |-> "", maxp |-> NULL,
   resp |-> 0, skipped |-> FALSE, pub |-> FALSE, sentTo |-> {},
   imageFailed |-> FALSE,
   llmFailed |-> FALSE, genOk |-> FALSE, stale |-> FALSE, valid |-> FALSE]

\* A finished request keeps what it was and what it answered.
Finished(q, code) ==
  [NewReq EXCEPT !.kind = q.kind, !.pc = "done", !.sid = q.sid, !.uid = q.uid,
                 !.src = q.src, !.resp = code, !.skipped = q.skipped,
                 !.pub = q.pub, !.sentTo = q.sentTo,
                 !.imageFailed = q.imageFailed, !.llmFailed = q.llmFailed,
                 !.genOk = q.genOk,
                 !.stale = q.stale, !.valid = q.valid]

\* The outer catch of the action handler: the 500 answer is sent at once, the
\* ROLLBACK is issued later, after `db.get("PRAGMA journal_mode")` settles.
OuterCatch(q) == [q EXCEPT !.pc = "o_rb", !.resp = 500]

\* ------------------------------------------------------------ initial state
\* Two games have been started: S1, a multiplayer game of u1 that u2 has joined
\* (max_players 3), and S2, a single-player game of u1.  S1 has had k turns
\* played in order by its roster, S2 none.
GameGoal == "goal"
Prereqs == {"p1", "p2"}

\* `acts` is a history column: the number of action-path UPDATEs applied to
\* the row (it is written, committed and rolled back with the row).
SessionRow(isMp, maxp, cur, owner, code, acts) ==
  [exists |-> TRUE, mp |-> isMp, maxp |-> maxp, cpi |-> cur, owner |-> owner,
   invite |-> code, gameGoal |-> GameGoal, prereqs |-> Prereqs, met |-> {},
   goal |-> FALSE, acts |-> acts]

Roster1 == {PlayerRow("u1", 0), PlayerRow("u2", 1)}
UserAt(rows, i) == (CHOOSE p \in rows : p.idx = i).user

InitDb(k) ==
  [sessions |-> [s \in Sessions |->
                   IF s = "S1" THEN SessionRow(TRUE, 3, k % 2, "u1", "INV1", k)
                   ELSE SessionRow(FALSE, NULL, NULL, "u1", "", 0)],
   players |-> [s \in Sessions |->
                   IF s = "S1" THEN Roster1 ELSE {PlayerRow("u1", 0)}],
   turns |-> [s \in Sessions |->
                {TurnRow(0, NoUser, NULL)} \cup
                (IF s = "S1"
                 THEN {TurnRow(i, UserAt(Roster1, (i - 1) % 2), (i - 1) % 2) :
                         i \in 1..k}
                 ELSE {})]]

\* sessionSockets: session id -> (user id -> socket); a session without
\* registered sockets has no entry.
SocketsOf(conn) ==
  [s \in (IF conn = {} THEN {} ELSE {"S1"}) |->
     [u \in conn |-> IF u = "u1" THEN "k1" ELSE "k2"]]

\* The socket objects of the server: `state` is new (not yet connected), live
\* or closed; userId / sessionId are socket.data (undefined until a successful
\* authenticate); tokUser / tokSid are the locals of an authenticate in flight;
\* reply is what the last authenticate handler emitted to the socket.
SocketIds == {"k1", "k2", "k3"}
NoSession == "none"
NewSocket ==
  [state |-> "new", pc |-> "idle", tokUser |-> NoUser, tokSid |-> NoSession,
   userId |-> NoUser, sessionId |-> NoSession, rooms |-> {}, leftTo |-> {},
   reply |-> "none"]
AuthenticatedSocket(u, s) ==
  [NewSocket EXCEPT !.state = "live", !.userId = u, !.sessionId = s,
                    !.rooms = {s}]
SocksOf(conn) ==
  [c \in SocketIds |->
     IF c = "k1" /\ "u1" \in conn THEN AuthenticatedSocket("u1", "S1")
     ELSE IF c = "k2" /\ "u2" \in conn THEN AuthenticatedSocket("u2", "S1")
     ELSE NewSocket]

Init ==
  /\ \E k \in 0..MaxInitTurns : db = InitDb(k)
  /\ snap = db
  /\ tx = FALSE
  /\ \E conn \in SUBSET {"u1", "u2"} :
       sessionSockets = SocketsOf(conn) /\ sock = SocksOf(conn)
  /\ imageProvider = "google"
  /\ req = [r \in Reqs |-> NewReq]

\* sessionConnections?.has(user_id) ?? false
IsConnected(s, u) ==
  /\ s \in DOMAIN sessionSockets
  /\ u \in DOMAIN sessionSockets[s]

\* The connected sockets that are in the room of session s.
RoomMembers(s) ==
  {c \in SocketIds : sock[c].state = "live" /\ s \in sock[c].rooms}

\* A publish that is dropped when the acting user is no longer registered.
BroadcastIfStillConnected(q) ==
  IF IsConnected(q.sid, q.uid)
  THEN [q EXCEPT !.pub = TRUE, !.sentTo = RoomMembers(q.sid)]
  ELSE q

\* broadcastSessionUpdate: io.to(sessionId).emit("SESSION_UPDATE", payload).
\* One packet goes to each socket that is in the room at this moment; sentTo
\* records them with the request that published.
BroadcastSessionUpdate(q) ==
  [q EXCEPT !.pub = TRUE, !.sentTo = RoomMembers(q.sid)]

\* ------------------------------------------------- POST /api/game/action
\* What the specification asks of a submission, against the persisted state
\* at the moment it arrives (recorded with the request, never read by it).
ValidSubmission(s, u, t) ==
  LET row == Persisted.sessions[s]
  IN /\ row.exists
     /\ \E p \in Persisted.players[s] :
          /\ p.user = u
          /\ row.mp => (p.idx = row.cpi /\ IsConnected(s, u))
     /\ t = MaxIndex(Persisted.turns[s])

\* A request arrives with a body that passes the 400/401 checks.
SubmitAction(r, s, u, t) ==
  /\ req[r].pc = "idle"
  /\ \A o \in Reqs : o < r => req[o].pc # "idle"
  /\ req' = [req EXCEPT ![r] =
               [NewReq EXCEPT !.kind = "action", !.pc = "a_session",
                              !.sid = s, !.uid = u, !.src = t,
                              !.stale = t < MaxIndex(Persisted.turns[s]),
                              !.valid = ValidSubmission(s, u, t)]]
  /\ UNCHANGED <<dbvars, env>>

\* 1. SELECT ... FROM sessions WHERE session_id = ?
ActReadSession(r) ==
  LET q == req[r]
      row == db.sessions[q.sid]
  IN /\ q.pc = "a_session"
     /\ req' = [req EXCEPT ![r] =
                  IF ~row.exists THEN Finished(q, 404)
                  ELSE [q EXCEPT !.pc = "a_players", !.cpi = row.cpi,
                                 !.mp = row.mp, !.goalRead = row.goal]]
     /\ UNCHANGED <<dbvars, env>>

\* A connection check that asks the registry for single-player games too.
CurrentRegistered(q, rows) ==
  \E p \in rows : (q.mp => p.idx = q.cpi) /\ IsConnected(q.sid, p.user)

\* SELECT ... FROM session_players, then (without an await in between) the
\* requesting-player lookup, 2. Validate Turn and 3. the connection check of
\* the current player.
CurrentConnected(q, rows) ==
  IF q.mp
  THEN \E p \in rows : p.idx = q.cpi /\ IsConnected(q.sid, p.user)
  ELSE TRUE

ActReadPlayers(r) ==
  LET q == req[r]
      rows == db.players[q.sid]
      mine == {p \in rows : p.user = q.uid}
      me == CHOOSE p \in mine : TRUE
  IN /\ q.pc = "a_players"
     /\ req' = [req EXCEPT ![r] =
                  IF rows = {} THEN OuterCatch(q)
                  ELSE IF mine = {} THEN Finished(q, 403)
                  ELSE IF q.mp /\ q.cpi # me.idx THEN Finished(q, 403)
                  ELSE [q EXCEPT !.players = rows, !.pidx = me.idx,
                                 !.pc = IF CurrentConnected(q, rows)
                                        THEN "a_begin" ELSE "s_begin"]]
     /\ UNCHANGED <<dbvars, env>>

\* 4a. await db.run("BEGIN")
ActBegin(r) ==
  LET q == req[r]
  IN /\ q.pc = "a_begin"
     /\ IF BeginOk
        THEN DoBegin /\ req' = [req EXCEPT ![r].pc = "a_max"]
        ELSE UNCHANGED dbvars /\ req' = [req EXCEPT ![r] = OuterCatch(q)]
     /\ UNCHANGED env

\* Get Max Turn Index & Validate sourceTurnIndex
ValidTurnIndex(src, latest) == ~(src < 0 \/ src > latest)

ActMaxTurn(r) ==
  LET q == req[r]
      latestDbIndex == MaxIndex(db.turns[q.sid])
  IN /\ q.pc = "a_max"
     /\ req' = [req EXCEPT ![r] =
                  IF ValidTurnIndex(q.src, latestDbIndex)
                  THEN [q EXCEPT !.pc = "a_hist", !.latest = latestDbIndex]
                  ELSE [q EXCEPT !.pc = "a_catch"]]
     /\ UNCHANGED <<dbvars, env>>

\* Get History Context (turn_index <= sourceTurnIndex); the read of the
\* previous image row that follows cannot fail and changes nothing.
ActHistory(r) ==
  LET q == req[r]
      historyRows == {t \in db.turns[q.sid] : t.idx <= q.src}
  IN /\ q.pc = "a_hist"
     /\ req' = [req EXCEPT ![r] =
                  IF historyRows = {} THEN [q EXCEPT !.pc = "a_catch"]
                  ELSE [q EXCEPT !.pc = "a_llm", !.attempt = 1]]
     /\ UNCHANGED <<dbvars, env>>

\* A retry loop that gives up one attempt later.
LLMFailsAfterFour(attempt) == ~(attempt < MaxRetries + 1)

\* callLLM: one attempt of the retry loop.  `out.ok` is FALSE for a network
\* error, a timeout, an empty, unparsable or schema-invalid output; otherwise
\* out.met is updated_met_prerequisites and out.goal is is_goal_met_this_turn.
LLMFailsFor(attempt) == ~(attempt < MaxRetries)

LLMErrorSwallowed(q) == [q EXCEPT !.pc = "a_image", !.llmFailed = TRUE]

\* Final failure after all retries: callLLM throws, and the handler's inner
\* catch (actionError) takes over.
LLMExhausted(q) == [q EXCEPT !.pc = "a_catch", !.llmFailed = TRUE]

ActLLM(r, out) ==
  LET q == req[r]
  IN /\ q.pc = "a_llm"
     /\ req' = [req EXCEPT ![r] =
                  IF ~out.ok
                  THEN IF LLMFailsFor(q.attempt)
                       THEN LLMExhausted(q)
                       ELSE [q EXCEPT !.attempt = q.attempt + 1]
                  ELSE [q EXCEPT !.pc = "a_image", !.met = out.met,
                                 !.goal = out.goal]]
     /\ UNCHANGED <<dbvars, env>>

\* The values of ACTIVE_IMAGE_PROVIDER that the switch knows.
ImageProviders == {"google", "google-flash", "openai"}

\* generateImageWithImagen and generateImageWithGoogleFlash catch the error
\* of the image call and return a placeholder URL; generateImageWithOpenAI
\* has no catch.
PlaceholderOnFailure(p) == p \in {"google", "google-flash"}

\* generateImageWithAppropriateProvider: `ok` tells whether the image service
\* answered with an image.  imageFailed records that it did not.
ActImage(r, ok) ==
  LET q == req[r]
  IN /\ q.pc = "a_image"
     /\ req' = [req EXCEPT ![r] =
                  IF ok \/ PlaceholderOnFailure(imageProvider)
                  THEN [q EXCEPT !.pc = "a_insert", !.genOk = TRUE,
                                 !.imageFailed = ~ok]
                  ELSE [q EXCEPT !.pc = "a_catch", !.imageFailed = TRUE]]
     /\ UNCHANGED <<dbvars, env>>

\* INSERT INTO turns: FOREIGN KEY (session_id) and UNIQUE(session_id, turn_index).
InsertTurnOk(d, s, i) ==
  /\ d.sessions[s].exists
  /\ ~\E t \in d.turns[s] : t.idx = i

\* Branching check: if (sourceTurnIndex < latestDbIndex) { /* comment only */ }
\* The block holds no statement, so the rows are what they were.
BranchingCheck(d, q) == d

ActInsertTurn(r) ==
  LET q == req[r]
      newTurnIndex == q.src + 1
      d == BranchingCheck(db, q)
  IN /\ q.pc = "a_insert"
     /\ IF InsertTurnOk(d, q.sid, newTurnIndex)
        THEN /\ Write([d EXCEPT !.turns[q.sid] =
                         @ \cup {TurnRow(newTurnIndex, q.uid, q.pidx)}])
             /\ req' = [req EXCEPT ![r].pc = "a_update"]
        ELSE /\ UNCHANGED dbvars
             /\ req' = [req EXCEPT ![r].pc = "a_catch"]
     /\ UNCHANGED env

\* Calculate next player index (round-robin over the players read in step 1)
NextPlayerIndex(q) ==
  IF q.mp THEN (q.cpi + 1) % Cardinality(q.players) ELSE q.cpi

\* UPDATE sessions SET current_player_index, met_prerequisites, is_goal_met
UpdatedSessionAndGoal(row, q) ==
  [row EXCEPT !.cpi = NextPlayerIndex(q), !.met = q.met,
              !.goal = q.goal \/ q.goalRead, !.acts = @ + 1,
              !.prereqs = q.met]

\* The columns the UPDATE sets: current_player_index, met_prerequisites (the
\* generator's list as it is) and is_goal_met (finalGoalMetStatus).
UpdatedSession(row, q) ==
  LET finalGoalMetStatus == q.goal \/ q.goalRead
  IN [row EXCEPT !.cpi = NextPlayerIndex(q), !.met = q.met,
                 !.goal = finalGoalMetStatus, !.acts = @ + 1]

ActUpdateSession(r) ==
  LET q == req[r]
  IN /\ q.pc = "a_update"
     /\ Write(IF db.sessions[q.sid].exists
              THEN [db EXCEPT !.sessions[q.sid] = UpdatedSession(@, q)]
              ELSE db)
     /\ req' = [req EXCEPT ![r].pc = "a_commit"]
     /\ UNCHANGED env

\* await db.run("COMMIT")
ActCommit(r) ==
  LET q == req[r]
  IN /\ q.pc = "a_commit"
     /\ IF EndOk
        THEN DoCommit /\ req' = [req EXCEPT ![r].pc = "a_state"]
        ELSE UNCHANGED dbvars /\ req' = [req EXCEPT ![r].pc = "a_catch"]
     /\ UNCHANGED env

\* getFullSessionState, broadcastSessionUpdate, res.status(200).  `ok` tells
\* whether the reads of getFullSessionState went through: it returns null
\* when the session row is not found and when one of its reads throws, and
\* the handler then throws into its catch (actionError).
ActState(r, ok) ==
  LET q == req[r]
  IN /\ q.pc = "a_state"
     /\ req' = [req EXCEPT ![r] =
                  IF ok /\ db.sessions[q.sid].exists
                  THEN Finished(BroadcastSessionUpdate(q), 200)
                  ELSE [q EXCEPT !.pc = "a_catch"]]
     /\ UNCHANGED <<dbvars, env>>

\* catch (actionError) { await db.run("ROLLBACK"); throw actionError; }
\* Whether the ROLLBACK succeeds or throws, control reaches the outer catch.
ActCatch(r) ==
  LET q == req[r]
  IN /\ q.pc = "a_catch"
     /\ TryRollback
     /\ req' = [req EXCEPT ![r] = OuterCatch(q)]
     /\ UNCHANGED env

\* db.get("PRAGMA journal_mode").finally(() => db.run("ROLLBACK").catch(...))
OuterRollback(r) ==
  LET q == req[r]
  IN /\ q.pc = "o_rb"
     /\ TryRollback
     /\ req' = [req EXCEPT ![r] = Finished(q, q.resp)]
     /\ UNCHANGED env

\* ------------------------------------------- 4b. SKIP TURN (same handler)
\* The scan over the players read in step 1, against the socket map as it is
\* when the scan runs.
RECURSIVE ScanFrom(_, _, _)
ScanFrom(q, currentCheckIndex, checkedCount) ==
  LET numPlayers == Cardinality(q.players)
      idx == (currentCheckIndex + 1) % numPlayers
  IN IF ~(checkedCount < numPlayers) THEN NULL
     ELSE IF \E p \in q.players : p.idx = idx /\ IsConnected(q.sid, p.user)
          THEN idx
          ELSE ScanFrom(q, idx, checkedCount + 1)

NextConnectedAfterNext(q) ==
  ScanFrom(q, (q.cpi + 1) % Cardinality(q.players), 0)

\* let currentCheckIndex = currentPlayerIndex; let checkedCount = 0; while ...
NextConnectedPlayerIndex(q) == ScanFrom(q, q.cpi, 0)

\* await db.run("BEGIN"), then the scan (no await in between)
SkipBegin(r) ==
  LET q == req[r]
      found == NextConnectedPlayerIndex(q)
  IN /\ q.pc = "s_begin"
     /\ IF BeginOk
        THEN /\ DoBegin
             /\ req' = [req EXCEPT ![r] =
                          [q EXCEPT !.next = found,
                                    !.pc = IF found # NULL THEN "s_update"
                                           ELSE "s_norb"]]
        ELSE UNCHANGED dbvars /\ req' = [req EXCEPT ![r] = OuterCatch(q)]
     /\ UNCHANGED env

\* UPDATE sessions SET current_player_index = ? (only)
SkipUpdate(r) ==
  LET q == req[r]
  IN /\ q.pc = "s_update"
     /\ Write(IF db.sessions[q.sid].exists
              THEN [db EXCEPT !.sessions[q.sid].cpi = q.next]
              ELSE db)
     /\ req' = [req EXCEPT ![r].pc = "s_commit"]
     /\ UNCHANGED env

SkipCommit(r) ==
  LET q == req[r]
  IN /\ q.pc = "s_commit"
     /\ IF EndOk
        THEN DoCommit /\ req' = [req EXCEPT ![r].pc = "s_state"]
        ELSE UNCHANGED dbvars /\ req' = [req EXCEPT ![r].pc = "s_catch"]
     /\ UNCHANGED env

\* getFullSessionState, broadcast, 200 { message: "... turn skipped." }; `ok`
\* as in ActState.
SkipState(r, ok) ==
  LET q == req[r]
  IN /\ q.pc = "s_state"
     /\ req' = [req EXCEPT ![r] =
                  IF ok /\ db.sessions[q.sid].exists
                  THEN Finished([BroadcastSessionUpdate(q)
                                   EXCEPT !.skipped = TRUE], 200)
                  ELSE [q EXCEPT !.pc = "s_catch"]]
     /\ UNCHANGED <<dbvars, env>>

\* No connected player: await db.run("ROLLBACK"), then 409.
SkipNoPlayer(r) ==
  LET q == req[r]
  IN /\ q.pc = "s_norb"
     /\ IF EndOk
        THEN DoRollback /\ req' = [req EXCEPT ![r] = Finished(q, 409)]
        ELSE UNCHANGED dbvars /\ req' = [req EXCEPT ![r].pc = "s_catch"]
     /\ UNCHANGED env

\* catch (skipError) { await db.run("ROLLBACK"); throw skipError; }
SkipCatch(r) ==
  LET q == req[r]
  IN /\ q.pc = "s_catch"
     /\ TryRollback
     /\ req' = [req EXCEPT ![r] = OuterCatch(q)]
     /\ UNCHANGED env

\* --------------------------------------------------- POST /api/game/join
SubmitJoin(r, u, c) ==
  /\ req[r].pc = "idle"
  /\ \A o \in Reqs : o < r => req[o].pc # "idle"
  /\ req' = [req EXCEPT ![r] =
               [NewReq EXCEPT !.kind = "join", !.pc = "j_begin", !.uid = u,
                              !.code = c]]
  /\ UNCHANGED <<dbvars, env>>

\* The catch of the join handler awaits its ROLLBACK before it answers.
JoinThrow(q, code) == [q EXCEPT !.pc = "j_catch", !.ret = code]
\* await db.run("ROLLBACK"); return res.status(code)
JoinReturn(q, code) == [q EXCEPT !.pc = "j_rbret", !.ret = code]

JoinBegin(r) ==
  LET q == req[r]
  IN /\ q.pc = "j_begin"
     /\ IF BeginOk
        THEN DoBegin /\ req' = [req EXCEPT ![r].pc = "j_session"]
        ELSE UNCHANGED dbvars /\ req' = [req EXCEPT ![r] = JoinThrow(q, 500)]
     /\ UNCHANGED env

\* 1. Find the session by invite code (invite_code is UNIQUE)
JoinSession(r) ==
  LET q == req[r]
      hits == {s \in Sessions :
                 db.sessions[s].exists /\ db.sessions[s].invite = q.code}
      s == CHOOSE x \in hits : TRUE
  IN /\ q.pc = "j_session"
     /\ req' = [req EXCEPT ![r] =
                  IF hits = {} THEN JoinReturn(q, 404)
                  ELSE IF ~db.sessions[s].mp THEN JoinReturn(q, 400)
                  ELSE [q EXCEPT !.pc = "j_existing", !.sid = s,
                                 !.maxp = db.sessions[s].maxp]]
     /\ UNCHANGED <<dbvars, env>>

\* A join handler without step 2: it goes on to the player count at once.
JoinWithoutExistingCheck(r) ==
  LET q == req[r]
  IN /\ q.pc = "j_existing"
     /\ req' = [req EXCEPT ![r].pc = "j_count"]
     /\ UNCHANGED <<dbvars, env>>

\* 2. Check if user is already in the session
JoinExisting(r) ==
  LET q == req[r]
  IN /\ q.pc = "j_existing"
     /\ req' = [req EXCEPT ![r] =
                  IF \E p \in db.players[q.sid] : p.user = q.uid
                  THEN JoinReturn(q, 200)
                  ELSE [q EXCEPT !.pc = "j_count"]]
     /\ UNCHANGED <<dbvars, env>>

\* A full session with one more player let in.
SessionOverFull(playerCount, maxPlayers) == playerCount > maxPlayers

\* 3. Count current players and check against max_players
SessionFull(playerCount, maxPlayers) == playerCount >= maxPlayers

JoinCount(r) ==
  LET q == req[r]
      playerCount == Cardinality(db.players[q.sid])
  IN /\ q.pc = "j_count"
     /\ req' = [req EXCEPT ![r] =
                  IF SessionFull(playerCount, q.maxp) THEN JoinReturn(q, 403)
                  ELSE [q EXCEPT !.pc = "j_insert", !.next = playerCount]]
     /\ UNCHANGED <<dbvars, env>>

\* 4. INSERT INTO session_players: FOREIGN KEY (session_id),
\* UNIQUE(session_id, user_id), UNIQUE(session_id, player_index).
UserTaken(d, s, u) == \E p \in d.players[s] : p.user = u
IndexTaken(d, s, i) == \E p \in d.players[s] : p.idx = i
InsertPlayerOk(d, s, u, i) ==
  d.sessions[s].exists /\ ~UserTaken(d, s, u) /\ ~IndexTaken(d, s, i)

JoinInsert(r) ==
  LET q == req[r]
  IN /\ q.pc = "j_insert"
     /\ IF InsertPlayerOk(db, q.sid, q.uid, q.next)
        THEN /\ Write([db EXCEPT !.players[q.sid] =
                         @ \cup {PlayerRow(q.uid, q.next)}])
             /\ req' = [req EXCEPT ![r].pc = "j_commit"]
        ELSE /\ UNCHANGED dbvars
             /\ req' = [req EXCEPT ![r] =
                          JoinThrow(q, IF UserTaken(db, q.sid, q.uid)
                                       THEN 409 ELSE 500)]
     /\ UNCHANGED env

JoinCommit(r) ==
  LET q == req[r]
  IN /\ q.pc = "j_commit"
     /\ IF EndOk
        THEN DoCommit /\ req' = [req EXCEPT ![r].pc = "j_state"]
        ELSE UNCHANGED dbvars /\ req' = [req EXCEPT ![r] = JoinThrow(q, 500)]
     /\ UNCHANGED env

\* getFullSessionState; broadcast if it is not null; 200 { sessionId }
JoinState(r) ==
  LET q == req[r]
  IN /\ q.pc = "j_state"
     /\ req' = [req EXCEPT ![r] =
                  Finished(IF db.sessions[q.sid].exists
                           THEN BroadcastSessionUpdate(q) ELSE q, 200)]
     /\ UNCHANGED <<dbvars, env>>

JoinRollbackReturn(r) ==
  LET q == req[r]
  IN /\ q.pc = "j_rbret"
     /\ IF EndOk
        THEN DoRollback /\ req' = [req EXCEPT ![r] = Finished(q, q.ret)]
        ELSE UNCHANGED dbvars /\ req' = [req EXCEPT ![r] = JoinThrow(q, 500)]
     /\ UNCHANGED env

\* catch (error) { try { await db.run("ROLLBACK") } catch {} ; 409 or 500 }
JoinCatch(r) ==
  LET q == req[r]
  IN /\ q.pc = "j_catch"
     /\ TryRollback
     /\ req' = [req EXCEPT ![r] = Finished(q, q.ret)]
     /\ UNCHANGED env

\* --------------------------------------------------- POST /api/game/start
\* A row of `sessions` that is not there.
NoSessionRow ==
  [SessionRow(FALSE, NULL, NULL, NoUser, "", 0) EXCEPT !.exists = FALSE]

\* inviteCode = `INV-${uuidv4()...}` for a multiplayer game, null otherwise.
InviteOf(s) == IF s = "S1" THEN "INV1" ELSE "INV2"

\* The body is valid (theme, character, 2..8 players for a multiplayer game);
\* sessionId = uuidv4() is an id no session has had.
SubmitStart(r, s, u, isMultiplayer, maxPlayers) ==
  /\ req[r].pc = "idle"
  /\ \A o \in Reqs : o < r => req[o].pc # "idle"
  /\ ~db.sessions[s].exists /\ ~snap.sessions[s].exists
  /\ \A o \in DOMAIN req : ~(req[o].kind = "start" /\ req[o].sid = s)
  /\ req' = [req EXCEPT ![r] =
               [NewReq EXCEPT !.kind = "start", !.pc = "st_llm", !.sid = s,
                              !.uid = u, !.mp = isMultiplayer,
                              !.maxp = IF isMultiplayer THEN maxPlayers ELSE 1,
                              !.code = IF isMultiplayer THEN InviteOf(s) ELSE ""]]
  /\ UNCHANGED <<dbvars, env>>

\* callLLM for the initial turn, with the check of game_goal and
\* goal_prerequisites: `ok` is FALSE when callLLM throws after its retries or
\* the payload has no usable goal.
StartLLM(r, ok) ==
  LET q == req[r]
  IN /\ q.pc = "st_llm"
     /\ req' = [req EXCEPT ![r].pc = IF ok THEN "st_image" ELSE "st_catch",
                           ![r].llmFailed = ~ok]
     /\ UNCHANGED <<dbvars, env>>

\* switch (ACTIVE_IMAGE_PROVIDER): the image of turn 0
StartImage(r, ok) ==
  LET q == req[r]
  IN /\ q.pc = "st_image"
     /\ req' = [req EXCEPT ![r] =
                  IF ok \/ PlaceholderOnFailure(imageProvider)
                  THEN [q EXCEPT !.pc = "st_begin", !.genOk = TRUE,
                                 !.imageFailed = ~ok]
                  ELSE [q EXCEPT !.pc = "st_catch", !.imageFailed = TRUE]]
     /\ UNCHANGED <<dbvars, env>>

\* await db.run("BEGIN")
StartBegin(r) ==
  LET q == req[r]
  IN /\ q.pc = "st_begin"
     /\ IF BeginOk
        THEN DoBegin /\ req' = [req EXCEPT ![r].pc = "st_session"]
        ELSE UNCHANGED dbvars /\ req' = [req EXCEPT ![r].pc = "st_catch"]
     /\ UNCHANGED env

\* INSERT INTO sessions: session_id PRIMARY KEY, invite_code UNIQUE.
InsertSessionOk(d, s, code) ==
  /\ ~d.sessions[s].exists
  /\ code = "" \/ ~\E x \in Sessions :
                     d.sessions[x].exists /\ d.sessions[x].invite = code

\* The row of sessionParams: current_player_index 0 and max_players for a
\* multiplayer game, null for a single-player game; "[]" and 0 for the goal.
StartedSession(q) ==
  SessionRow(q.mp, IF q.mp THEN q.maxp ELSE NULL, IF q.mp THEN 0 ELSE NULL,
             q.uid, q.code, 0)

StartInsertSession(r) ==
  LET q == req[r]
  IN /\ q.pc = "st_session"
     /\ IF InsertSessionOk(db, q.sid, q.code)
        THEN /\ Write([db EXCEPT !.sessions[q.sid] = StartedSession(q)])
             /\ req' = [req EXCEPT ![r].pc = "st_player"]
        ELSE /\ UNCHANGED dbvars
             /\ req' = [req EXCEPT ![r].pc = "st_catch"]
     /\ UNCHANGED env

\* Insert Creator into session_players: "Always starts as player 0"
StartInsertPlayer(r) ==
  LET q == req[r]
  IN /\ q.pc = "st_player"
     /\ IF InsertPlayerOk(db, q.sid, q.uid, 0)
        THEN /\ Write([db EXCEPT !.players[q.sid] = @ \cup {PlayerRow(q.uid, 0)}])
             /\ req' = [req EXCEPT ![r].pc = "st_turn"]
        ELSE /\ UNCHANGED dbvars
             /\ req' = [req EXCEPT ![r].pc = "st_catch"]
     /\ UNCHANGED env

\* Insert First Turn: turn_index 0, action_taken null, acting player null.
StartInsertTurn(r) ==
  LET q == req[r]
  IN /\ q.pc = "st_turn"
     /\ IF InsertTurnOk(db, q.sid, 0)
        THEN /\ Write([db EXCEPT !.turns[q.sid] = @ \cup {TurnRow(0, NoUser, NULL)}])
             /\ req' = [req EXCEPT ![r].pc = "st_commit"]
        ELSE /\ UNCHANGED dbvars
             /\ req' = [req EXCEPT ![r].pc = "st_catch"]
     /\ UNCHANGED env

\* await db.run("COMMIT"); res.status(201)
StartCommit(r) ==
  LET q == req[r]
  IN /\ q.pc = "st_commit"
     /\ IF EndOk
        THEN DoCommit /\ req' = [req EXCEPT ![r] = Finished(q, 201)]
        ELSE UNCHANGED dbvars /\ req' = [req EXCEPT ![r].pc = "st_catch"]
     /\ UNCHANGED env

\* catch (error) { try { await db.run("ROLLBACK") } catch {} ; 500 }
StartCatch(r) ==
  LET q == req[r]
  IN /\ q.pc = "st_catch"
     /\ TryRollback
     /\ req' = [req EXCEPT ![r] = Finished(q, 500)]
     /\ UNCHANGED env

\* ------------------------------------- DELETE /api/games/history/:sessionId
SubmitDelete(r, s, u) ==
  /\ req[r].pc = "idle"
  /\ \A o \in Reqs : o < r => req[o].pc # "idle"
  /\ req' = [req EXCEPT ![r] =
               [NewReq EXCEPT !.kind = "delete", !.pc = "d_check", !.sid = s,
                              !.uid = u]]
  /\ UNCHANGED <<dbvars, env>>

\* A delete handler that accepts any roster member of the session.
DeletableByMember(d, s, u) ==
  d.sessions[s].exists /\ \E p \in d.players[s] : p.user = u

\* WHERE session_id = ? AND user_id = ?
OwnedBy(d, s, u) == d.sessions[s].exists /\ d.sessions[s].owner = u

\* 1. Verify session ownership before deleting
DeleteCheck(r) ==
  LET q == req[r]
  IN /\ q.pc = "d_check"
     /\ req' = [req EXCEPT ![r] =
                  IF OwnedBy(db, q.sid, q.uid) THEN [q EXCEPT !.pc = "d_begin"]
                  ELSE Finished(q, 404)]
     /\ UNCHANGED <<dbvars, env>>

DeleteBegin(r) ==
  LET q == req[r]
  IN /\ q.pc = "d_begin"
     /\ IF BeginOk
        THEN DoBegin /\ req' = [req EXCEPT ![r].pc = "d_delete"]
        ELSE UNCHANGED dbvars /\ req' = [req EXCEPT ![r].pc = "d_catch"]
     /\ UNCHANGED env

\* DELETE FROM sessions: the turns and session_players rows of the session go
\* with it (ON DELETE CASCADE, foreign_keys = ON).
DeleteCascade(d, s) ==
  [d EXCEPT !.sessions[s] = NoSessionRow, !.players[s] = {}, !.turns[s] = {}]

\* 2. Delete the session; `ret` holds the answer that result.changes selects.
DeleteSession(r) ==
  LET q == req[r]
      found == OwnedBy(db, q.sid, q.uid)
  IN /\ q.pc = "d_delete"
     /\ Write(IF found THEN DeleteCascade(db, q.sid) ELSE db)
     /\ req' = [req EXCEPT ![r].pc = "d_commit",
                           ![r].ret = IF found THEN 200 ELSE 404]
     /\ UNCHANGED env

DeleteCommit(r) ==
  LET q == req[r]
  IN /\ q.pc = "d_commit"
     /\ IF EndOk
        THEN DoCommit /\ req' = [req EXCEPT ![r] = Finished(q, q.ret)]
        ELSE UNCHANGED dbvars /\ req' = [req EXCEPT ![r].pc = "d_catch"]
     /\ UNCHANGED env

\* catch (error) { await db.run("ROLLBACK").catch(...); 500 }
DeleteCatch(r) ==
  LET q == req[r]
  IN /\ q.pc = "d_catch"
     /\ TryRollback
     /\ req' = [req EXCEPT ![r] = Finished(q, 500)]
     /\ UNCHANGED env

\* A server that registers a socket for u1 in S1 as soon as it connects.
ConnectAndRegister(c) ==
  /\ sock[c].state = "new"
  /\ sock' = [sock EXCEPT ![c].state = "live"]
  /\ sessionSockets' = [s \in {"S1"} |-> [u \in {"u1"} |-> c]]
  /\ UNCHANGED <<dbvars, imageProvider, req>>

\* ------------------------------------------------ WebSocket connections
\* io.on("connection", (socket) => ...)
Connect(c) ==
  /\ sock[c].state = "new"
  /\ sock' = [sock EXCEPT ![c].state = "live"]
  /\ UNCHANGED <<dbvars, sessionSockets, imageProvider, req>>

\* socket.on("authenticate"): token and sessionId are present; the handler
\* awaits verifyIdToken (u is the user of the token) and then db.get.
Authenticate(c, u, s) ==
  /\ sock[c].state = "live"
  /\ sock[c].pc = "idle"
  /\ sock' = [sock EXCEPT ![c].pc = "auth", ![c].tokUser = u, ![c].tokSid = s,
                          ![c].reply = "none"]
  /\ UNCHANGED <<dbvars, sessionSockets, imageProvider, req>>

\* sessionSockets.get(sessionId)?.set(userId, socket), creating the inner map
\* when the session has none.
StoreSocket(m, s, u, c) ==
  IF s \in DOMAIN m
  THEN [m EXCEPT ![s] = [x \in DOMAIN m[s] \cup {u} |->
                           IF x = u THEN c ELSE m[s][x]]]
  ELSE [x \in DOMAIN m \cup {s} |-> IF x = s THEN [y \in {u} |-> c] ELSE m[x]]

\* The listener without its clean-up of an emptied session map.
RemoveRegistrationKeepEmpty(m, s, u) ==
  IF u # NoUser /\ s # NoSession /\ s \in DOMAIN m
  THEN [m EXCEPT ![s] = [x \in DOMAIN m[s] \ {u} |-> m[s][x]]]
  ELSE m

\* The disconnect listener: userMap.delete(userId) for the userId / sessionId
\* stored in socket.data, then the session entry is dropped when its map is
\* empty.  Nothing compares the stored socket with the one that disconnected.
RemoveRegistration(m, s, u) ==
  IF u # NoUser /\ s # NoSession /\ s \in DOMAIN m
  THEN LET userMap == [x \in DOMAIN m[s] \ {u} |-> m[s][x]]
       IN IF DOMAIN userMap = {}
          THEN [x \in DOMAIN m \ {s} |-> m[x]]
          ELSE [m EXCEPT ![s] = userMap]
  ELSE m

\* The connection closes (client side, transport, or socket.disconnect(true)):
\* the socket leaves its rooms and the disconnect listener runs.
CloseSocket(k) == [k EXCEPT !.state = "closed", !.rooms = {}]

\* A listener that announces every disconnect, to the whole room.
PlayerLeftAlways(c) == RoomMembers(sock[c].sessionId)

\* if (userMap?.delete(userId)) socket.broadcast.to(sessionId).emit(
\*   "player_left", { userId }): when the delete removed an entry, one packet
\* carrying the socket's userId goes to each socket in the room but this one.
PlayerLeftRecipients(c) ==
  IF IsConnected(sock[c].sessionId, sock[c].userId)
  THEN RoomMembers(sock[c].sessionId) \ {c}
  ELSE {}

\* leftTo records, with the socket that closed, who got its player_left.
Disconnect(c) ==
  /\ sock[c].state = "live"
  /\ sock' = [sock EXCEPT ![c] =
                [CloseSocket(@) EXCEPT !.leftTo = PlayerLeftRecipients(c)]]
  /\ sessionSockets' =
       RemoveRegistration(sessionSockets, sock[c].sessionId, sock[c].userId)
  /\ UNCHANGED <<dbvars, imageProvider, req>>

\* A membership check that accepts a player of any session.
PlayerOfSomeSession(d, s, u) ==
  \E x \in Sessions : \E p \in d.players[x] : p.user = u

\* SELECT 1 FROM session_players WHERE session_id = ? AND user_id = ?
PlayerCheck(d, s, u) == \E p \in d.players[s] : p.user = u

\* The rest of the authenticate handler, after its awaits: the membership
\* check, then either the registration or the catch (auth_error and
\* socket.disconnect(true)).  The handler never looks at whether the socket
\* is still connected.
AuthFinish(c) ==
  LET k == sock[c]
      playerCheck == PlayerCheck(db, k.tokSid, k.tokUser)
      idle == [k EXCEPT !.pc = "idle", !.tokUser = NoUser, !.tokSid = NoSession]
  IN /\ k.pc = "auth"
     /\ IF playerCheck
        THEN /\ sessionSockets' =
                  StoreSocket(sessionSockets, k.tokSid, k.tokUser, c)
             /\ sock' = [sock EXCEPT ![c] =
                           [idle EXCEPT !.rooms = @ \cup {k.tokSid},
                                        !.reply = "authenticated",
                                        !.userId = k.tokUser,
                                        !.sessionId = k.tokSid]]
        ELSE IF k.state = "live"
             THEN /\ sock' = [sock EXCEPT ![c] =
                                [CloseSocket(idle)
                                   EXCEPT !.leftTo = PlayerLeftRecipients(c),
                                          !.reply = "auth_error"]]
                  /\ sessionSockets' =
                       RemoveRegistration(sessionSockets, k.sessionId, k.userId)
             ELSE /\ sock' = [sock EXCEPT ![c] =
                                [idle EXCEPT !.reply = "auth_error"]]
                  /\ UNCHANGED sessionSockets
     /\ UNCHANGED <<dbvars, imageProvider, req>>

\* ------------------------------------------------------------ the system
LLMFail == [ok |-> FALSE, met |-> {}, goal |-> FALSE]
LLMPayload(m, g) == [ok |-> TRUE, met |-> m, goal |-> g]
\* callLLM accepts any array of strings as updated_met_prerequisites: "other"
\* is a string that is not one of the session's prerequisites.
LLMOutcomes ==
  {LLMFail, LLMPayload({}, FALSE), LLMPayload({"p1"}, TRUE),
   LLMPayload({"p1", "other"}, FALSE)}

Next ==
  \E r \in 1..MaxPair :
    \/ \E s \in Sessions, u \in {"u1", "u2"}, t \in 0..MaxInitTurns :
         SubmitAction(r, s, u, t)
    \/ ActReadSession(r)
    \/ ActReadPlayers(r)
    \/ ActBegin(r)
    \/ ActMaxTurn(r)
    \/ ActHistory(r)
    \/ \E out \in LLMOutcomes : ActLLM(r, out)
    \/ \E ok \in BOOLEAN : ActImage(r, ok)
    \/ ActInsertTurn(r)
    \/ ActUpdateSession(r)
    \/ ActCommit(r)
    \/ ActState(r, TRUE)
    \/ ActCatch(r)
    \/ OuterRollback(r)
    \/ SkipBegin(r)
    \/ SkipUpdate(r)
    \/ SkipCommit(r)
    \/ SkipState(r, TRUE)
    \/ SkipNoPlayer(r)
    \/ SkipCatch(r)
    \/ SubmitJoin(r, "u3", "INV1")
    \/ JoinBegin(r)
    \/ JoinSession(r)
    \/ JoinExisting(r)
    \/ JoinCount(r)
    \/ JoinInsert(r)
    \/ JoinCommit(r)
    \/ JoinState(r)
    \/ JoinRollbackReturn(r)
    \/ JoinCatch(r)

Spec == Init /\ [][Next]_vars

\* Three requests at once, all for the multiplayer game S1 in which every
\* roster member holds a socket: actions against its latest turn, and u3 joining.
InitTriple ==
  /\ db = InitDb(MaxInitTurns)
  /\ snap = db
  /\ tx = FALSE
  /\ sessionSockets = SocketsOf({"u1", "u2"})
  /\ sock = SocksOf({"u1", "u2"})
  /\ imageProvider = "google"
  /\ req = [r \in Reqs |-> NewReq]

NextTriple ==
  \E r \in Reqs :
    \/ \E u \in {"u1", "u2"}, t \in 0..MaxInitTurns : SubmitAction(r, "S1", u, t)
    \/ ActReadSession(r)
    \/ ActReadPlayers(r)
    \/ ActBegin(r)
    \/ ActMaxTurn(r)
    \/ ActHistory(r)
    \/ \E out \in {LLMFail, LLMPayload({"p1"}, FALSE)} : ActLLM(r, out)
    \/ ActImage(r, TRUE)
    \/ ActInsertTurn(r)
    \/ ActUpdateSession(r)
    \/ ActCommit(r)
    \/ ActState(r, TRUE)
    \/ ActCatch(r)
    \/ OuterRollback(r)
    \/ SubmitJoin(r, "u3", "INV1")
    \/ JoinBegin(r)
    \/ JoinSession(r)
    \/ JoinExisting(r)
    \/ JoinCount(r)
    \/ JoinInsert(r)
    \/ JoinCommit(r)
    \/ JoinState(r)
    \/ JoinRollbackReturn(r)
    \/ JoinCatch(r)

SpecTriple == InitTriple /\ [][NextTriple]_vars

\* Requests handled one after the other (a client that waits for each answer)
\* for the multiplayer game S1, while sockets connect, authenticate and
\* disconnect at any moment, the awaits of a request included.  Each socket
\* authenticates at most once, with the token of a user of its device: k1 and
\* k2 are two connections of u1, k3 is one of u2 or of u3.
TokensOf(c) == IF c = "k3" THEN {"u2", "u3"} ELSE {"u1"}

NoneInFlight == \A o \in Reqs : req[o].pc \in {"idle", "done"}

InitPresence ==
  /\ \E k \in 0..MaxInitTurns : db = InitDb(k)
  /\ snap = db
  /\ tx = FALSE
  /\ sessionSockets = SocketsOf({})
  /\ sock = SocksOf({})
  /\ imageProvider = "google"
  /\ req = [r \in Reqs |-> NewReq]

NextPresence ==
  \/ \E c \in SocketIds :
       \/ Connect(c)
       \/ /\ sock[c].userId = NoUser
          /\ \E u \in TokensOf(c) : Authenticate(c, u, "S1")
       \/ AuthFinish(c)
       \/ Disconnect(c)
  \/ \E r \in 1..MaxSolo :
       \/ /\ NoneInFlight
          /\ \E u \in {"u1", "u2"}, t \in 0..MaxInitTurns :
               SubmitAction(r, "S1", u, t)
       \/ NoneInFlight /\ SubmitJoin(r, "u3", "INV1")
       \/ ActReadSession(r)
       \/ ActReadPlayers(r)
       \/ ActBegin(r)
       \/ ActMaxTurn(r)
       \/ ActHistory(r)
       \/ \E out \in {LLMFail, LLMPayload({"p1"}, TRUE)} : ActLLM(r, out)
       \/ ActImage(r, TRUE)
       \/ ActInsertTurn(r)
       \/ ActUpdateSession(r)
       \/ ActCommit(r)
       \/ ActState(r, TRUE)
       \/ ActCatch(r)
       \/ OuterRollback(r)
       \/ SkipBegin(r)
       \/ SkipUpdate(r)
       \/ SkipCommit(r)
       \/ SkipState(r, TRUE)
       \/ SkipNoPlayer(r)
       \/ JoinBegin(r)
       \/ JoinSession(r)
       \/ JoinExisting(r)
       \/ JoinCount(r)
       \/ JoinInsert(r)
       \/ JoinCommit(r)
       \/ JoinState(r)

SpecPresence == InitPresence /\ [][NextPresence]_vars

\* Actions of the multiplayer game S1 handled one after the other, every
\* roster member holding a socket, under each image provider the server can
\* be configured with; the image service may fail at every call.
InitImage ==
  /\ \E k \in 0..MaxInitTurns : db = InitDb(k)
  /\ snap = db
  /\ tx = FALSE
  /\ sessionSockets = SocketsOf({"u1", "u2"})
  /\ sock = SocksOf({"u1", "u2"})
  /\ imageProvider \in ImageProviders
  /\ req = [r \in Reqs |-> NewReq]

NextImage ==
  \E r \in 1..MaxSolo :
    \/ /\ NoneInFlight
       /\ \E u \in {"u1", "u2"}, t \in 0..MaxInitTurns : SubmitAction(r, "S1", u, t)
    \/ ActReadSession(r)
    \/ ActReadPlayers(r)
    \/ ActBegin(r)
    \/ ActMaxTurn(r)
    \/ ActHistory(r)
    \/ \E out \in {LLMFail, LLMPayload({"p1"}, FALSE)} : ActLLM(r, out)
    \/ \E ok \in BOOLEAN : ActImage(r, ok)
    \/ ActInsertTurn(r)
    \/ ActUpdateSession(r)
    \/ ActCommit(r)
    \/ ActState(r, TRUE)
    \/ ActCatch(r)
    \/ OuterRollback(r)

SpecImage == InitImage /\ [][NextImage]_vars

\* What the event loop does for a request that is suspended at an await: it
\* runs the continuation once the awaited promise has settled.
Continue(r) ==
  \/ ActReadSession(r)
  \/ ActReadPlayers(r)
  \/ ActBegin(r)
  \/ ActMaxTurn(r)
  \/ ActHistory(r)
  \/ \E out \in {LLMFail, LLMPayload({"p1"}, FALSE)} : ActLLM(r, out)
  \/ \E ok \in BOOLEAN : ActImage(r, ok)
  \/ ActInsertTurn(r)
  \/ ActUpdateSession(r)
  \/ ActCommit(r)
  \/ ActState(r, TRUE)
  \/ ActCatch(r)
  \/ OuterRollback(r)
  \/ SkipBegin(r)
  \/ SkipUpdate(r)
  \/ SkipCommit(r)
  \/ SkipState(r, TRUE)
  \/ SkipNoPlayer(r)
  \/ SkipCatch(r)

\* Two overlapping actions for the multiplayer game S1.  Every awaited promise
\* settles: the database calls return, and the calls to the generator and to
\* the image service end with an answer, an error or a timeout (axios
\* timeouts of 30, 40 and 60 seconds, the HTTP clients' own limits otherwise),
\* so a suspended request is always resumed in the end.
NextGenerator ==
  \E r \in 1..MaxPair :
    \/ \E u \in {"u1", "u2"}, t \in 0..MaxInitTurns : SubmitAction(r, "S1", u, t)
    \/ Continue(r)

SpecGenerator ==
  /\ Init
  /\ [][NextGenerator]_vars
  /\ \A r \in 1..MaxPair : WF_vars(Continue(r))

\* The whole life of a game: the multiplayer game S1 exists, S2 does not yet.
\* Two overlapping requests of any kind: u2 starts a game (S2), u3 joins with
\* an invite code, a roster member of S1 acts, a user deletes a game.
InitLifecycle ==
  /\ \E k \in 0..MaxInitTurns :
       db = DeleteCascade(InitDb(k), "S2")
  /\ snap = db
  /\ tx = FALSE
  /\ \E conn \in SUBSET {"u1", "u2"} :
       sessionSockets = SocketsOf(conn) /\ sock = SocksOf(conn)
  /\ imageProvider = "google"
  /\ req = [r \in Reqs |-> NewReq]

NextLifecycle ==
  \E r \in 1..MaxPair :
    \/ \E u \in {"u1", "u2"}, t \in 0..MaxInitTurns : SubmitAction(r, "S1", u, t)
    \/ Continue(r)
    \/ \E c \in {"INV1", "INV2"} : SubmitJoin(r, "u3", c)
    \/ JoinBegin(r)
    \/ JoinSession(r)
    \/ JoinExisting(r)
    \/ JoinCount(r)
    \/ JoinInsert(r)
    \/ JoinCommit(r)
    \/ JoinState(r)
    \/ JoinRollbackReturn(r)
    \/ JoinCatch(r)
    \/ \E isMultiplayer \in BOOLEAN : SubmitStart(r, "S2", "u2", isMultiplayer, 2)
    \/ \E ok \in BOOLEAN : StartLLM(r, ok)
    \/ \E ok \in BOOLEAN : StartImage(r, ok)
    \/ StartBegin(r)
    \/ StartInsertSession(r)
    \/ StartInsertPlayer(r)
    \/ StartInsertTurn(r)
    \/ StartCommit(r)
    \/ StartCatch(r)
    \/ \E s \in Sessions, u \in {"u1", "u2"} : SubmitDelete(r, s, u)
    \/ DeleteCheck(r)
    \/ DeleteBegin(r)
    \/ DeleteSession(r)
    \/ DeleteCommit(r)
    \/ DeleteCatch(r)

SpecLifecycle == InitLifecycle /\ [][NextLifecycle]_vars

\* Requests of every kind handled one at a time, while sockets connect,
\* authenticate and disconnect at any moment (as in SpecPresence).
NextRegistry ==
  \/ \E c \in SocketIds :
       \/ Connect(c)
       \/ /\ sock[c].userId = NoUser
          /\ \E u \in TokensOf(c) : Authenticate(c, u, "S1")
       \/ AuthFinish(c)
       \/ Disconnect(c)
  \/ \E r \in 1..MaxOne :
       \/ /\ NoneInFlight
          /\ \/ \E u \in {"u1", "u2"}, t \in 0..MaxInitTurns :
                  SubmitAction(r, "S1", u, t)
             \/ \E c \in {"INV1", "INV2"} : SubmitJoin(r, "u3", c)
             \/ \E isMultiplayer \in BOOLEAN :
                  SubmitStart(r, "S2", "u2", isMultiplayer, 2)
             \/ \E s \in Sessions, u \in {"u1", "u2"} : SubmitDelete(r, s, u)
       \/ ActReadSession(r)
       \/ ActReadPlayers(r)
       \/ ActBegin(r)
       \/ ActMaxTurn(r)
       \/ ActHistory(r)
       \/ \E out \in {LLMFail, LLMPayload({"p1"}, TRUE)} : ActLLM(r, out)
       \/ ActImage(r, TRUE)
       \/ ActInsertTurn(r)
       \/ ActUpdateSession(r)
       \/ ActCommit(r)
       \/ ActState(r, TRUE)
       \/ ActCatch(r)
       \/ OuterRollback(r)
       \/ SkipBegin(r)
       \/ SkipUpdate(r)
       \/ SkipCommit(r)
       \/ SkipState(r, TRUE)
       \/ SkipNoPlayer(r)
       \/ JoinBegin(r)
       \/ JoinSession(r)
       \/ JoinExisting(r)
       \/ JoinCount(r)
       \/ JoinInsert(r)
       \/ JoinCommit(r)
       \/ JoinState(r)
       \/ JoinRollbackReturn(r)
       \/ \E ok \in BOOLEAN : StartLLM(r, ok)
       \/ StartImage(r, TRUE)
       \/ StartBegin(r)
       \/ StartInsertSession(r)
       \/ StartInsertPlayer(r)
       \/ StartInsertTurn(r)
       \/ StartCommit(r)
       \/ StartCatch(r)
       \/ DeleteCheck(r)
       \/ DeleteBegin(r)
       \/ DeleteSession(r)
       \/ DeleteCommit(r)

SpecRegistry == InitLifecycle /\ [][NextRegistry]_vars

\* u1 has just started the multiplayer game S1 (for 2 or for 3 players) and
\* has handed out its invite code.  Joins by u1 (a member already), u2 and u3
\* overlap in any way.
InitJoin ==
  /\ \E maxPlayers \in {2, 3} :
       db = [sessions |-> [s \in Sessions |->
                             IF s = "S1"
                             THEN SessionRow(TRUE, maxPlayers, 0, "u1", "INV1", 0)
                             ELSE NoSessionRow],
             players |-> [s \in Sessions |->
                            IF s = "S1" THEN {PlayerRow("u1", 0)} ELSE {}],
             turns |-> [s \in Sessions |->
                          IF s = "S1" THEN {TurnRow(0, NoUser, NULL)} ELSE {}]]
  /\ snap = db
  /\ tx = FALSE
  /\ sessionSockets = SocketsOf({})
  /\ sock = SocksOf({})
  /\ imageProvider = "google"
  /\ req = [r \in 1..MaxJoin |-> NewReq]

NextJoin ==
  \E r \in 1..MaxJoin :
    \/ \E u \in Users : SubmitJoin(r, u, "INV1")
    \/ JoinBegin(r)
    \/ JoinSession(r)
    \/ JoinExisting(r)
    \/ JoinCount(r)
    \/ JoinInsert(r)
    \/ JoinCommit(r)
    \/ JoinState(r)
    \/ JoinRollbackReturn(r)
    \/ JoinCatch(r)

SpecJoin == InitJoin /\ [][NextJoin]_vars

\* The same joins, each sent after the previous one was answered.
NextJoinSerial ==
  \E r \in 1..MaxJoin :
    \/ NoneInFlight /\ \E u \in Users : SubmitJoin(r, u, "INV1")
    \/ JoinBegin(r)
    \/ JoinSession(r)
    \/ JoinExisting(r)
    \/ JoinCount(r)
    \/ JoinInsert(r)
    \/ JoinCommit(r)
    \/ JoinState(r)
    \/ JoinRollbackReturn(r)

SpecJoinSerial == InitJoin /\ [][NextJoinSerial]_vars

\* Two sockets that authenticate any number of times, for either game, with
\* the token of a roster member, with the token of a user who is in no roster
\* (u3) or with a token that verifyIdToken rejects (no user), and disconnect
\* at any moment, the awaits of their authenticate handler included.  No
\* request changes the database.
HandshakeSockets == {"k1", "k2"}
HandshakeTokens == {"u1", "u2", "u3", NoUser}

InitHandshake ==
  /\ db = InitDb(0)
  /\ snap = db
  /\ tx = FALSE
  /\ sessionSockets = SocketsOf({})
  /\ sock = SocksOf({})
  /\ imageProvider = "google"
  /\ req = [r \in Reqs |-> NewReq]

NextHandshake ==
  \E c \in HandshakeSockets :
    \/ Connect(c)
    \/ \E u \in HandshakeTokens, s \in Sessions : Authenticate(c, u, s)
    \/ AuthFinish(c)
    \/ Disconnect(c)

SpecHandshake == InitHandshake /\ [][NextHandshake]_vars

\* Requests handled one after the other for either game, with any
\* fromTurnIndex from -1 to one past the longest initial ledger, and with a
\* getFullSessionState whose reads can fail after the COMMIT.
TurnInputs == (0 - 1)..(MaxInitTurns + 1)

NextSerial ==
  \E r \in 1..MaxSolo :
    \/ /\ NoneInFlight
       /\ \E s \in Sessions, u \in {"u1", "u2"}, t \in TurnInputs :
            SubmitAction(r, s, u, t)
    \/ ActReadSession(r)
    \/ ActReadPlayers(r)
    \/ ActBegin(r)
    \/ ActMaxTurn(r)
    \/ ActHistory(r)
    \/ \E out \in {LLMFail, LLMPayload({"p1"}, TRUE)} : ActLLM(r, out)
    \/ ActImage(r, TRUE)
    \/ ActInsertTurn(r)
    \/ ActUpdateSession(r)
    \/ ActCommit(r)
    \/ \E ok \in BOOLEAN : ActState(r, ok)
    \/ ActCatch(r)
    \/ OuterRollback(r)
    \/ SkipBegin(r)
    \/ SkipUpdate(r)
    \/ SkipCommit(r)
    \/ \E ok \in BOOLEAN : SkipState(r, ok)
    \/ SkipNoPlayer(r)
    \/ SkipCatch(r)

SpecSerial == Init /\ [][NextSerial]_vars

\* The client whose request was answered sends its next one: the slot of a
\* finished request is free again.
Retire(r) ==
  /\ req[r].pc = "done"
  /\ req' = [req EXCEPT ![r] = NewReq]
  /\ UNCHANGED <<dbvars, env>>

\* The multiplayer game S1 played by the roster members who are registered,
\* and by nobody else: each of them keeps submitting an action from the
\* latest turn, one request at a time; the generator, the image service and
\* the database calls succeed; no socket connects or disconnects.  The
\* ledger is cut off at MaxLedger turns.
SubmitsLatest(r, u) ==
  /\ IsConnected("S1", u)
  /\ \E p \in Persisted.players["S1"] : p.user = u
  /\ MaxIndex(Persisted.turns["S1"]) < MaxLedger
  /\ SubmitAction(r, "S1", u, MaxIndex(Persisted.turns["S1"]))

HandlesAction(r) ==
  \/ ActReadSession(r)
  \/ ActReadPlayers(r)
  \/ ActBegin(r)
  \/ ActMaxTurn(r)
  \/ ActHistory(r)
  \/ ActLLM(r, LLMPayload({"p1"}, FALSE))
  \/ ActImage(r, TRUE)
  \/ ActInsertTurn(r)
  \/ ActUpdateSession(r)
  \/ ActCommit(r)
  \/ ActState(r, TRUE)

NextConnectedOnly ==
  \E r \in 1..MaxOne :
    \/ \E u \in Users : SubmitsLatest(r, u)
    \/ HandlesAction(r)
    \/ Retire(r)

SpecConnectedOnly == Init /\ [][NextConnectedOnly]_vars

\* Every request is handled to its answer, every answered client sends its
\* next request, and every registered roster member gets to submit again and
\* again.
SpecConnectedOnlyFair ==
  /\ SpecConnectedOnly
  /\ \A r \in 1..MaxOne :
       /\ WF_vars(HandlesAction(r))
       /\ WF_vars(Retire(r))
       /\ \A u \in Users : SF_vars(SubmitsLatest(r, u))

\* ============================================================ properties
TurnIndices(s) == {t.idx : t \in Persisted.turns[s]}

\* A submitAction that has read the session row and has neither answered nor
\* failed yet.
InFlight(r) ==
  /\ req[r].kind = "action"
  /\ req[r].pc \notin {"idle", "a_session", "o_rb", "done"}

\* C1: for one session, the handling of two submitAction requests never
\* overlaps: while one has read the session's state and has not yet committed
\* or failed, no other request for that session has read it too.
C1_NoOverlap ==
  \A r1, r2 \in Reqs :
    (r1 # r2 /\ req[r1].sid = req[r2].sid) => ~(InFlight(r1) /\ InFlight(r2))

\* How a finished request was answered.
Accepted(r) == req[r].pc = "done" /\ req[r].resp = 200 /\ ~req[r].skipped
Rejected(r) == req[r].pc = "done" /\ req[r].resp # 200

\* C2: of two submitAction requests for the same session with the same
\* fromTurnIndex, both valid when they arrived and neither losing its
\* generation, exactly one is answered 200 and the other is rejected; the
\* ledger holds exactly one turn fromTurnIndex+1 and the session row has been
\* updated exactly once more.
C2_ExactlyOneAccepted ==
  \A r1, r2 \in Reqs :
    ( /\ r1 < r2
      /\ req[r1].kind = "action" /\ req[r2].kind = "action"
      /\ req[r1].pc = "done" /\ req[r2].pc = "done"
      /\ req[r1].sid = req[r2].sid /\ req[r1].src = req[r2].src
      /\ req[r1].valid /\ req[r2].valid
      /\ ~req[r1].llmFailed /\ ~req[r2].llmFailed )
    => /\ (Accepted(r1) /\ Rejected(r2)) \/ (Rejected(r1) /\ Accepted(r2))
       /\ req[r1].src + 1 \in TurnIndices(req[r1].sid)
       /\ Persisted.sessions[req[r1].sid].acts = req[r1].src + 1

\* C3: the persisted turn indices of a session are exactly 0..k, and a
\* submitAction answered 200 (not a skip) has appended the turn
\* fromTurnIndex+1.
C3_GaplessLedger ==
  /\ \A s \in Sessions :
       Persisted.sessions[s].exists =>
         TurnIndices(s) = 0..MaxIndex(Persisted.turns[s])
  /\ \A r \in Reqs :
       (req[r].kind = "action" /\ Accepted(r)) =>
         req[r].src + 1 \in TurnIndices(req[r].sid)

\* The step is one of request r (every step changes exactly one request).
StepOf(r) == req'[r] # req[r]

\* C4: in a multiplayer session every turn that becomes persisted records as
\* acting player the index that the persisted current_player_index had just
\* before, and a submission answered 403 changes nothing that is persisted.
C4_ActingPlayerIsCurrent ==
  [][ /\ \A s \in Sessions :
           Persisted.sessions[s].mp =>
             \A t \in Persisted'.turns[s] \ Persisted.turns[s] :
               t.aidx = Persisted.sessions[s].cpi
      /\ \A r \in Reqs :
           (StepOf(r) /\ req'[r].resp = 403) => Persisted' = Persisted
    ]_vars

\* The step is the successful COMMIT of request r on the action path.
CommitsAction(r) == req[r].pc = "a_commit" /\ req'[r].pc = "a_state"

\* C5: the COMMIT of a non-skip submitAction in a multiplayer session leaves
\* current_player_index at (i+1) mod N, i the persisted index just before the
\* commit and N the size of the roster persisted with the commit.
C5_RoundRobinAdvance ==
  [][ \A r \in Reqs :
        (CommitsAction(r) /\ req[r].mp) =>
          Persisted'.sessions[req[r].sid].cpi =
            (Persisted.sessions[req[r].sid].cpi + 1)
              % Cardinality(Persisted'.players[req[r].sid])
    ]_vars

\* C6: a multiplayer session's persisted current_player_index is the
\* player_index of one of its roster entries, a single-player session's is null.
C6_CurrentPlayerInRoster ==
  \A s \in Sessions :
    Persisted.sessions[s].exists =>
      IF Persisted.sessions[s].mp
      THEN \E p \in Persisted.players[s] : p.idx = Persisted.sessions[s].cpi
      ELSE Persisted.sessions[s].cpi = NULL

\* C7: when the narrative generator has failed on all 3 attempts of a
\* submitAction, that request never reaches the turn insert, none of its steps
\* changes the persisted state (no turn, current_player_index, met
\* prerequisites and goal flag as they were), it publishes nothing, and it is
\* answered with an error (500).
C7_GenerationFailureLeavesNoTrace ==
  [][ \A r \in Reqs :
        (StepOf(r) /\ req'[r].llmFailed) =>
          /\ Persisted' = Persisted
          /\ ~req'[r].genOk
          /\ ~req'[r].pub
          /\ req'[r].pc = "done" => req'[r].resp = 500
    ]_vars

C7_Witness ==
  \E r \in Reqs :
    /\ req[r].kind = "action"
    /\ req[r].llmFailed
    /\ req[r].pc = "done"
    /\ req[r].resp = 500

\* C8: the persisted state never holds a turn without the session update
\* written with it, nor that update without its turn: the number of
\* action-path updates of the row equals the number of turns after turn 0.
C8_AtomicWrites ==
  \A s \in Sessions :
    Persisted.sessions[s].exists =>
      Persisted.sessions[s].acts = Cardinality(Persisted.turns[s]) - 1

\* Every other request that has arrived is for another session.
AloneInSession(r) ==
  \A o \in Reqs : (o # r /\ req[o].kind # "none") => req[o].sid # req[r].sid

\* C9: requests for different sessions are independent: a submitAction that
\* was valid when it arrived, whose generation did not fail, and beside which
\* only requests for other sessions exist, is answered 200 with its turn
\* appended (an operation in flight for another session never makes it fail).
C9_SessionsIndependent ==
  \A r \in Reqs :
    ( /\ req[r].kind = "action" /\ req[r].pc = "done"
      /\ req[r].valid /\ ~req[r].llmFailed
      /\ AloneInSession(r) )
    => Accepted(r)

\* C10: a submitAction whose fromTurnIndex is below the latest persisted turn
\* index when it arrives is rejected: none of its steps changes the persisted
\* state (no turn appended, current_player_index and goal state as they were)
\* and it is not answered 200.
C10_StaleRejected ==
  [][ \A r \in Reqs :
        (StepOf(r) /\ req'[r].kind = "action" /\ req'[r].stale) =>
          /\ Persisted' = Persisted
          /\ req'[r].pc = "done" => req'[r].resp # 200
    ]_vars

\* C11: when a submitAction whose fromTurnIndex is below the latest turn index
\* has passed validation and generation, its insert step discards the turns
\* after fromTurnIndex and appends the new one: afterwards the turn indices
\* are exactly 0..fromTurnIndex+1.
C11_BranchTruncation ==
  [][ \A r \in Reqs :
        ( /\ StepOf(r)
          /\ req[r].kind = "action" /\ req[r].pc = "a_insert"
          /\ req[r].src < req[r].latest )
        => /\ req'[r].pc = "a_update"
           /\ {t.idx : t \in db'.turns[req[r].sid]} = 0..(req[r].src + 1)
    ]_vars

\* C12: the persisted met-prerequisite set of a session only grows: no step
\* removes an entry from it.
C12_MetMonotonic ==
  [][ \A s \in Sessions :
        Persisted.sessions[s].met \subseteq Persisted'.sessions[s].met
    ]_vars

\* C13: once the persisted goal-satisfied flag of a session is true, it is
\* true after every step.
C13_GoalFlagStable ==
  [][ \A s \in Sessions :
        Persisted.sessions[s].goal => Persisted'.sessions[s].goal
    ]_vars

\* C14: the persisted goal-satisfied flag turns from false to true only when
\* a submitAction of the session holds the generator's achievement signal and
\* the met-prerequisite set persisted before the step already contained every
\* prerequisite of the session.
C14_GoalNeedsPriorPrerequisites ==
  [][ \A s \in Sessions :
        (~Persisted.sessions[s].goal /\ Persisted'.sessions[s].goal) =>
          /\ \E r \in Reqs :
               req[r].kind = "action" /\ req[r].sid = s /\ req[r].goal
          /\ Persisted.sessions[s].prereqs \subseteq Persisted.sessions[s].met
    ]_vars

\* C15: no step of any operation (submitAction, skip, join, socket connect,
\* authenticate or disconnect) changes the goal text or the prerequisite list
\* of a session, in the committed state or in the connection's working state.
C15_GoalDefinitionFixed ==
  [][ \A s \in Sessions :
        /\ Persisted'.sessions[s].gameGoal = Persisted.sessions[s].gameGoal
        /\ Persisted'.sessions[s].prereqs = Persisted.sessions[s].prereqs
        /\ db'.sessions[s].gameGoal = db.sessions[s].gameGoal
        /\ db'.sessions[s].prereqs = db.sessions[s].prereqs
    ]_vars

C15_Witness ==
  /\ \E r \in Reqs : Accepted(r) /\ req[r].sid = "S1"
  /\ \E r \in Reqs : req[r].pc = "done" /\ req[r].skipped
  /\ Persisted.sessions["S1"].gameGoal = GameGoal
  /\ Persisted.sessions["S1"].met # {}
  /\ \E c \in SocketIds : sock[c].state = "closed"
  /\ \E c \in SocketIds : sock[c].state = "live" /\ sock[c].userId # NoUser

\* C16: the persisted met-prerequisite set of a session is a subset of the
\* session's prerequisite list.
C16_MetWithinPrerequisites ==
  \A s \in Sessions :
    Persisted.sessions[s].met \subseteq Persisted.sessions[s].prereqs

\* The first index in the order (i+1) mod N, (i+2) mod N, ..., (i+N) mod N
\* whose player is registered for session s, NULL when there is none.
FirstRegisteredAfter(s, rows, i) ==
  LET N == Cardinality(rows)
      hits == {d \in 1..N :
                 \E p \in rows : p.idx = (i + d) % N /\ IsConnected(s, p.user)}
  IN IF hits = {} THEN NULL
     ELSE (i + (CHOOSE d \in hits : \A e \in hits : d <= e)) % N

SkipPcs == {"s_begin", "s_update", "s_commit", "s_state", "s_norb", "s_catch"}

\* C17: with requests handled one at a time, a submitAction takes the skip
\* path exactly when the current player i it read is not registered; its scan
\* yields the first registered index j in the order (i+1) mod N, (i+2) mod N,
\* ...; when there is one, its commit changes the persisted state by
\* current_player_index := j and nothing else (no turn, goal state
\* untouched), and it then publishes and answers 200 'turn skipped'.
C17_SkipToFirstRegistered ==
  [][ \A r \in Reqs :
        (StepOf(r) /\ req[r].kind = "action") =>
          LET q == req[r]
              s == q.sid
              j == FirstRegisteredAfter(s, q.players, q.cpi)
          IN /\ (q.pc = "a_players" /\ req'[r].pc \in {"a_begin", "s_begin"}) =>
                  (req'[r].pc = "s_begin" <=>
                     /\ q.mp
                     /\ ~\E p \in db.players[s] :
                           p.idx = q.cpi /\ IsConnected(s, p.user))
             /\ q.pc = "s_begin" =>
                  /\ req'[r].next = j
                  /\ req'[r].pc = IF j = NULL THEN "s_norb" ELSE "s_update"
             /\ q.pc = "s_commit" =>
                  /\ q.next # NULL
                  /\ req'[r].pc = "s_state"
                  /\ Persisted' =
                       [Persisted EXCEPT !.sessions[s].cpi = q.next]
             /\ q.pc = "s_state" =>
                  /\ req'[r].pc = "done" /\ req'[r].resp = 200
                  /\ req'[r].skipped /\ req'[r].pub
             /\ q.pc \in SkipPcs =>
                  /\ db'.turns = db.turns
                  /\ Persisted'.turns = Persisted.turns
                  /\ \A x \in {"met", "goal", "prereqs", "gameGoal"} :
                       db'.sessions[s][x] = db.sessions[s][x]
    ]_vars

\* A finished skip in a roster of three that passed over the unregistered
\* player 1: from current player 0 to player 2.
C17_Witness ==
  \E r \in Reqs :
    /\ req[r].kind = "action" /\ req[r].pc = "done"
    /\ req[r].skipped /\ req[r].pub /\ req[r].resp = 200
    /\ Cardinality(Persisted.players["S1"]) = 3
    /\ Persisted.sessions["S1"].acts = 0
    /\ Persisted.sessions["S1"].cpi = 2
    /\ Cardinality(Persisted.turns["S1"]) = 1

\* C18: in a multiplayer session whose current player is not registered, the
\* submission of a registered roster member who is not the current player
\* takes the skip path (the coordinator skips to the nearest registered player
\* instead of answering the submission itself).
C18_OtherMemberTriggersSkip ==
  [][ \A r \in Reqs :
        LET q == req[r]
            rows == db.players[q.sid]
        IN ( /\ StepOf(r)
             /\ q.kind = "action" /\ q.pc = "a_players" /\ q.mp
             /\ \E p \in rows : p.user = q.uid /\ p.idx # q.cpi
             /\ IsConnected(q.sid, q.uid)
             /\ \E p \in rows : p.idx = q.cpi /\ ~IsConnected(q.sid, p.user) )
           => req'[r].pc = "s_begin"
    ]_vars

\* C19: while no roster member of a multiplayer session is registered, no
\* step of a roster member's submitAction changes the persisted
\* current_player_index or turn ledger of the session, and every such
\* submitAction is answered with the 'no active players' condition (409).
C19_PausedWhileNobodyRegistered ==
  [][ \A r \in Reqs :
        LET q == req[r]
            s == q.sid
        IN ( /\ StepOf(r)
             /\ q.kind = "action"
             /\ Persisted.sessions[s].mp
             /\ \E p \in Persisted.players[s] : p.user = q.uid
             /\ \A p \in Persisted.players[s] : ~IsConnected(s, p.user) )
           => /\ Persisted'.sessions[s].cpi = Persisted.sessions[s].cpi
              /\ Persisted'.turns[s] = Persisted.turns[s]
              /\ req'[r].pc = "done" => req'[r].resp = 409
    ]_vars

\* C20: a user's registration lasts as long as the socket stored for the
\* user is live: when the socket registered for (s, u) is live before and
\* after a step, u is still registered for s after the step.
C20_RegistrationOutlivesReplacedSocket ==
  [][ \A c \in SocketIds :
        \A s \in DOMAIN sessionSockets :
          \A u \in DOMAIN sessionSockets[s] :
            ( /\ sessionSockets[s][u] = c
              /\ sock[c].state = "live" /\ sock'[c].state = "live" )
            => /\ s \in DOMAIN sessionSockets'
               /\ u \in DOMAIN sessionSockets'[s]
    ]_vars

\* C21: the registry holds no session entry whose set of registrations is
\* empty: the disconnect that removes the last registration of a session
\* removes the session's entry with it.
C21_NoEmptySessionEntry ==
  \A s \in DOMAIN sessionSockets : DOMAIN sessionSockets[s] # {}

\* A socket that had registered has disconnected and took the entry of S1
\* with it.
C21_Witness ==
  /\ "S1" \notin DOMAIN sessionSockets
  /\ \E c \in SocketIds : sock[c].state = "closed" /\ sock[c].userId # NoUser

\* The connected sockets, other than c, that the registry holds for session s.
OthersRegistered(s, c) ==
  {c2 \in SocketIds \ {c} :
     /\ sock[c2].state = "live"
     /\ \E x \in Users : IsConnected(s, x) /\ sessionSockets[s][x] = c2}

\* C22: when the disconnect of a socket removes the registration of its user
\* u in session s, every other connected socket registered in s receives one
\* player_left carrying u and the departing socket receives none; a
\* disconnect that removes no registration emits no player_left.
C22_PlayerLeftOnRemoval ==
  [][\A c \in SocketIds :
       (sock[c].state = "live" /\ sock'[c].state = "closed") =>
         LET u == sock[c].userId
             s == sock[c].sessionId
         IN IF IsConnected(s, u)
            THEN /\ OthersRegistered(s, c) \subseteq sock'[c].leftTo
                 /\ c \notin sock'[c].leftTo
                 /\ ~(/\ s \in DOMAIN sessionSockets'
                      /\ u \in DOMAIN sessionSockets'[s])
            ELSE sock'[c].leftTo = {}]_vars

\* A socket has disconnected and another registered socket was told so.
C22_Witness ==
  \E c \in SocketIds :
    /\ sock[c].state = "closed"
    /\ \E c2 \in sock[c].leftTo :
         \E x \in Users : IsConnected("S1", x) /\ sessionSockets["S1"][x] = c2

\* The sockets the registry holds for session s.
RegisteredChannels(s) ==
  {c \in SocketIds : \E x \in Users : IsConnected(s, x) /\ sessionSockets[s][x] = c}

\* C24: a publish for a session delivers the state only to sockets that the
\* registry holds for that session at that moment; a socket that is not the
\* registered one (replaced by a newer connection of the same user) does not
\* receive it.
C24_PublishToRegisteredOnly ==
  [][\A r \in Reqs :
       (~req[r].pub /\ req'[r].pub) =>
         req'[r].sentTo \subseteq RegisteredChannels(req[r].sid)]_vars

\* The positions of the action path after the connectivity check.
ActionPathPcs ==
  {"a_begin", "a_max", "a_hist", "a_llm", "a_image", "a_insert", "a_update",
   "a_commit", "a_state"}

\* C25: once a submitAction has passed the connectivity check, a disconnect
\* (of the acting player or of anyone else) while the generator or the image
\* service is awaited does not abort it.  With requests handled one at a
\* time, the action path is left for the error path only by the turnIndex
\* validation, by the generator's final failure or by the insert of a turn
\* submitted against an earlier turn, and its last step answers
\* 200 with the turn persisted, the current player index advanced and the
\* state published to the connected sockets still registered.
C25_DisconnectDoesNotAbort ==
  [][\A r \in Reqs :
       LET q == req[r]
       IN (q.pc \in ActionPathPcs /\ StepOf(r)) =>
            /\ req'[r].pc \in {"a_catch", "o_rb"} =>
                 \/ q.pc \in {"a_max", "a_llm"}
                 \/ q.pc = "a_insert" /\ q.src < q.latest
            /\ q.pc = "a_state" =>
                 /\ req'[r].pc = "done" /\ req'[r].resp = 200 /\ req'[r].pub
                 /\ TurnRow(q.src + 1, q.uid, q.pidx)
                      \in Persisted.turns[q.sid]
                 /\ Persisted.sessions[q.sid].cpi = NextPlayerIndex(q)
                 /\ {c \in RegisteredChannels(q.sid) : sock[c].state = "live"}
                      \subseteq req'[r].sentTo]_vars

\* The acting player's registration has gone while the request was handled,
\* another member is still registered, and the request is about to publish.
C25_Witness ==
  \E r \in Reqs :
    /\ req[r].kind = "action" /\ req[r].pc = "a_state"
    /\ ~IsConnected(req[r].sid, req[r].uid)
    /\ \E c \in RegisteredChannels(req[r].sid) : sock[c].state = "live"

\* C26: a failure of the image service never fails the turn, whichever image
\* provider is configured: the valid submission whose image call failed
\* answers 200 and its turn is persisted (with the placeholder image).
C26_ImageFailureKeepsTurn ==
  \A r \in Reqs :
    (req[r].pc = "done" /\ req[r].valid /\ req[r].imageFailed) =>
      /\ req[r].resp = 200
      /\ \E t \in Persisted.turns[req[r].sid] :
           t.idx = req[r].src + 1 /\ t.actor = req[r].uid

C23_RegistryFrame ==
  [][/\ req' # req => sessionSockets' = sessionSockets
     /\ sessionSockets' # sessionSockets =>
          \E c \in SocketIds :
            \/ sock[c].pc = "auth" /\ sock'[c].pc = "idle"
            \/ sock[c].state = "live" /\ sock'[c].state = "closed"]_vars

\* The owner has deleted S1 and the registry still holds its sockets.
C23_Witness ==
  /\ \E r \in Reqs :
       /\ req[r].kind = "delete" /\ req[r].pc = "done" /\ req[r].resp = 200
       /\ req[r].sid = "S1"
  /\ "S1" \in DOMAIN sessionSockets

\* C30: start creates the session row, the creator's roster entry (index 0)
\* and turn 0 (no action, no acting player) all together or not at all: the
\* persisted state never holds one of them without the others.  The new row
\* has no met prerequisite and no goal met; it has current player index 0 and
\* an invite code for a multiplayer game, null and no invite code otherwise.
C30_StartAllOrNothing ==
  \A s \in Sessions :
    LET row == Persisted.sessions[s]
        creator == \E p \in Persisted.players[s] :
                     p.idx = 0 /\ p.user = row.owner
        turn0 == TurnRow(0, NoUser, NULL) \in Persisted.turns[s]
    IN /\ row.exists <=> creator
       /\ row.exists <=> turn0
       /\ (/\ row.exists
           /\ \E r \in Reqs : /\ req[r].kind = "start" /\ req[r].sid = s
                               /\ req[r].pc = "done" /\ req[r].resp = 201) =>
            /\ row.met = {} /\ ~row.goal
            /\ IF row.mp THEN row.cpi = 0 /\ row.invite # ""
               ELSE row.cpi = NULL /\ row.invite = ""

\* C28: in the persisted roster of every session the player indices are
\* exactly 0..n-1 with n at most the maximum number of players (1 for a
\* single-player game), each index belongs to one user, each user has at most
\* one index, and index 0 is the creator's; for every interleaving of
\* concurrent joins.
C28_RosterIndices ==
  \A s \in Sessions :
    LET row == Persisted.sessions[s]
        rows == Persisted.players[s]
        n == Cardinality(rows)
    IN row.exists =>
         /\ {p.idx : p \in rows} = 0..(n - 1)
         /\ n <= (IF row.mp THEN row.maxp ELSE 1)
         /\ \A p1, p2 \in rows :
              (p1.idx = p2.idx \/ p1.user = p2.user) => p1 = p2
         /\ \E p \in rows : p.idx = 0 /\ p.user = row.owner

\* The persisted roster of session s holds max_players entries.
FullSession(s) ==
  /\ Persisted.sessions[s].exists /\ Persisted.sessions[s].mp
  /\ Cardinality(Persisted.players[s]) >= Persisted.sessions[s].maxp

\* C29: a join on a session whose roster already holds max_players entries,
\* by a user who is not in it, is rejected with 'session full' (403) and
\* leaves the roster, the current player index and the turn ledger unchanged
\* (joins handled one at a time).
C29_FullSessionRejected ==
  [][\A r \in DOMAIN req : \A s \in Sessions :
       LET q == req[r]
       IN (/\ q.kind = "join" /\ StepOf(r)
           /\ q.code = Persisted.sessions[s].invite
           /\ FullSession(s) /\ ~UserTaken(Persisted, s, q.uid)) =>
            /\ Persisted'.players[s] = Persisted.players[s]
            /\ Persisted'.sessions[s] = Persisted.sessions[s]
            /\ Persisted'.turns[s] = Persisted.turns[s]
            /\ req'[r].pc = "done" => req'[r].resp = 403]_vars

\* u3 was turned away from the full session S1.
C29_Witness ==
  \E r \in DOMAIN req :
    /\ req[r].kind = "join" /\ req[r].pc = "done" /\ req[r].resp = 403
    /\ req[r].uid = "u3"
    /\ FullSession("S1") /\ ~UserTaken(Persisted, "S1", "u3")

\* Request r runs the DELETE statement of the delete handler in this step.
RunsDelete(r) == req[r].kind = "delete" /\ req[r].pc = "d_delete" /\ StepOf(r)

\* C31: a session row leaves the working state only by the DELETE of a delete
\* request of its creator (or, never committed, by a ROLLBACK), and leaves
\* the persisted state only once that DELETE is committed; its turns and
\* roster entries go with it in the same step; while the row is persisted no
\* turn and no roster entry is removed; a delete request by anyone who is not
\* the creator (a roster member included) is answered 404 by its ownership
\* check and changes nothing in the database.
C31_DeleteOnlyByCreator ==
  [][/\ \A s \in Sessions :
          /\ (db.sessions[s].exists /\ ~db'.sessions[s].exists) =>
               \/ ~Persisted.sessions[s].exists
               \/ /\ \E r \in Reqs : /\ RunsDelete(r) /\ req[r].sid = s
                                     /\ req[r].uid = db.sessions[s].owner
                  /\ db'.turns[s] = {} /\ db'.players[s] = {}
          /\ Persisted.sessions[s].exists =>
               IF Persisted'.sessions[s].exists
               THEN /\ Persisted.turns[s] \subseteq Persisted'.turns[s]
                    /\ Persisted.players[s] \subseteq Persisted'.players[s]
               ELSE /\ ~db'.sessions[s].exists
                    /\ Persisted'.turns[s] = {}
                    /\ Persisted'.players[s] = {}
     /\ \A r \in Reqs :
          (/\ req[r].pc = "d_check" /\ StepOf(r)
           /\ db.sessions[req[r].sid].exists
           /\ db.sessions[req[r].sid].owner # req[r].uid) =>
            /\ req'[r].pc = "done" /\ req'[r].resp = 404
            /\ UNCHANGED dbvars]_vars

\* The creator u1 has deleted S1 with its turns and roster, and the roster
\* member u2 who asked first was answered 404.
C31_Witness ==
  /\ ~Persisted.sessions["S1"].exists
  /\ Persisted.turns["S1"] = {} /\ Persisted.players["S1"] = {}
  /\ \E r \in Reqs : /\ req[r].kind = "delete" /\ req[r].sid = "S1"
                     /\ req[r].uid = "u1" /\ req[r].resp = 200
  /\ \E r \in Reqs : /\ req[r].kind = "delete" /\ req[r].sid = "S1"
                     /\ req[r].uid = "u2" /\ req[r].resp = 404

\* The request is a submitAction for a single-player session by its sole
\* roster member.
SoloAction(r) ==
  /\ req[r].kind = "action"
  /\ db.sessions[req[r].sid].exists /\ ~db.sessions[req[r].sid].mp
  /\ \E p \in db.players[req[r].sid] : p.user = req[r].uid

\* C32: a submitAction for a single-player session by its sole roster member
\* passes the turn check and the connection check whatever the registry
\* holds: it is never answered 403 or 409, never takes the skip path and is
\* never marked skipped; and the current player index of a single-player
\* session is null in every working and persisted state.
C32_SinglePlayerAlwaysAllowed ==
  /\ \A r \in Reqs :
       SoloAction(r) =>
         /\ req[r].resp \notin {403, 409}
         /\ ~req[r].skipped
         /\ req[r].pc \notin SkipPcs
  /\ \A s \in Sessions :
       /\ (db.sessions[s].exists /\ ~db.sessions[s].mp) =>
            db.sessions[s].cpi = NULL
       /\ (Persisted.sessions[s].exists /\ ~Persisted.sessions[s].mp) =>
            Persisted.sessions[s].cpi = NULL

\* u1, who has no socket registered for the single-player game S2, has had an
\* action answered 200 and its turn persisted.
C32_Witness ==
  /\ ~IsConnected("S2", "u1")
  /\ \E r \in Reqs : SoloAction(r) /\ req[r].sid = "S2" /\ Accepted(r)
  /\ MaxIndex(Persisted.turns["S2"]) = 1
  /\ Persisted.sessions["S2"].cpi = NULL

\* Socket c's authenticate handler finishes in this step.
AuthFinishes(c) == sock[c].pc = "auth" /\ sock'[c].pc = "idle"

\* The handshake of socket c carries a valid credential of a roster member
\* of the session it names.
ValidHandshake(c) ==
  /\ sock[c].tokUser # NoUser
  /\ sock[c].tokUser \in {p.user : p \in db.players[sock[c].tokSid]}

\* The (session, user, socket) entries of the registry.
Registrations(m) ==
  {<<s, u, m[s][u]>> : <<s, u>> \in
     {x \in Sessions \X Users : x[1] \in DOMAIN m /\ x[2] \in DOMAIN m[x[1]]}}

\* C33 as stated: a handshake with a valid credential of a roster member
\* registers the socket for (sessionId, userId) and is answered
\* 'authenticated'; any other handshake is answered 'auth_error', the socket
\* is closed and the registry is left as it was.
C33_FailedHandshakeLeavesRegistry ==
  [][\A c \in SocketIds :
       AuthFinishes(c) =>
         IF ValidHandshake(c)
         THEN /\ sock'[c].reply = "authenticated"
              /\ <<sock[c].tokSid, sock[c].tokUser, c>>
                   \in Registrations(sessionSockets')
         ELSE /\ sock'[c].reply = "auth_error"
              /\ sock'[c].state = "closed"
              /\ sessionSockets' = sessionSockets]_vars

\* C33: a handshake with a valid credential of a roster member registers the
\* socket for (sessionId, userId), changes no other entry and is answered
\* 'authenticated'; any other handshake is answered 'auth_error', the socket
\* is closed and nothing is added to the registry: the only entry that can
\* go is the one for the (sessionId, userId) that an earlier handshake of
\* the same socket stored in socket.data, removed by the disconnect listener
\* when the socket closes.
C33_HandshakeOutcome ==
  [][\A c \in SocketIds :
       AuthFinishes(c) =>
         LET before == Registrations(sessionSockets)
             after == Registrations(sessionSockets')
             mine == {e \in before : /\ e[1] = sock[c].sessionId
                                     /\ e[2] = sock[c].userId}
             target == {e \in before : /\ e[1] = sock[c].tokSid
                                       /\ e[2] = sock[c].tokUser}
         IN IF ValidHandshake(c)
            THEN /\ sock'[c].reply = "authenticated"
                 /\ after = (before \ target) \cup
                              {<<sock[c].tokSid, sock[c].tokUser, c>>}
            ELSE /\ sock'[c].reply = "auth_error"
                 /\ sock'[c].state = "closed"
                 /\ after \subseteq before
                 /\ before \ after \subseteq mine
                 /\ sock[c].state = "closed" => after = before]_vars

\* k1 is registered after a valid handshake, and k2, registered earlier as
\* u2 in S1, was closed and lost its registration when a later handshake of
\* it failed.
C33_Witness ==
  /\ sock["k1"].reply = "authenticated" /\ sock["k1"].state = "live"
  /\ <<sock["k1"].sessionId, sock["k1"].userId, "k1">>
       \in Registrations(sessionSockets)
  /\ sock["k2"].reply = "auth_error" /\ sock["k2"].state = "closed"
  /\ sock["k2"].userId = "u2" /\ sock["k2"].sessionId = "S1"
  /\ ~IsConnected("S1", "u2")

\* Request r, a submitAction, is answered with an error in this step.
AnswersError(r) ==
  req[r].kind = "action" /\ req[r].resp = 0 /\ req'[r].resp >= 400

\* C34: with requests handled one at a time, when a submitAction is answered
\* with an error (4xx or 5xx, a failed re-read of the session state after the
\* COMMIT included), the persisted session is as the request found it: the
\* ledger ends at the turn index the request read, and the current player
\* index and the goal flag are the ones it read.
C34_ErrorLeavesSessionUnchanged ==
  [][\A r \in Reqs :
       AnswersError(r) =>
         LET q == req[r]
             row == Persisted'.sessions[q.sid]
         IN /\ q.latest # NULL =>
                 MaxIndex(Persisted'.turns[q.sid]) = q.latest
            /\ q.pc # "a_session" =>
                 row.cpi = q.cpi /\ row.goal = q.goalRead]_vars

\* Request o has inserted its turn inside the transaction that is open, and
\* is on its way to its COMMIT: the row is in the working state only.
HoldsUncommittedTurn(o) ==
  LET q == req[o]
      mine == TurnRow(q.src + 1, q.uid, q.pidx)
  IN /\ q.kind = "action" /\ q.pc \in {"a_update", "a_commit"}
     /\ tx
     /\ mine \in db.turns[q.sid]
     /\ mine \notin Persisted.turns[q.sid]

\* The step is a ROLLBACK: the open transaction ends and the working state
\* falls back to the committed rows.
IsRollback == tx /\ ~tx' /\ db' = Persisted /\ Persisted' = Persisted

\* C35: no ROLLBACK ends the transaction of, or discards the writes of, a
\* request that is between its BEGIN and its COMMIT: while a request holds an
\* inserted, not yet committed turn and has not failed, no step of any
\* request is a ROLLBACK (the request's own next steps are its UPDATE and its
\* COMMIT), for every interleaving of requests on the connection.
C35_RollbackIsolation ==
  [][\A o \in Reqs : HoldsUncommittedTurn(o) => ~IsRollback]_vars

\* C36: every (session, user) entry of the registry holds a socket that has
\* not disconnected; so no entry is left for a socket that has closed,
\* whatever it authenticated for and however often, and isConnected reports
\* no user whose sockets have all closed.
C36_RegisteredSocketsAreLive ==
  \A e \in Registrations(sessionSockets) : sock[e[3]].state = "live"

\* Some roster member of the multiplayer game S1 is registered.
SomeMemberConnected ==
  \E p \in Persisted.players["S1"] : IsConnected("S1", p.user)

\* C37: a multiplayer session with a connected roster member does not get
\* stuck: whenever some roster member is registered and the ledger ends at
\* turn n, the submissions of the registered roster members lead to a state
\* where a turn after n is persisted.
C37_ConnectedMembersMakeProgress ==
  \A n \in 0..(MaxLedger - 1) :
    (SomeMemberConnected /\ MaxIndex(Persisted.turns["S1"]) = n)
      ~> (MaxIndex(Persisted.turns["S1"]) > n)

\* Request r is a submitAction whose fromTurnIndex is negative or greater
\* than the latest persisted turn index of its session.
InvalidTurnIndex(r) ==
  /\ req[r].kind = "action" /\ req[r].pc # "done"
  /\ Persisted.sessions[req[r].sid].exists
  /\ \/ req[r].src < 0
     \/ req[r].src > MaxIndex(Persisted.turns[req[r].sid])

\* C38: with requests handled one at a time, a submitAction whose
\* fromTurnIndex is negative or greater than the latest persisted turn index
\* never reaches the generator, none of its steps changes the persisted
\* state, and it is answered with an error.
C38_InvalidTurnIndexRejected ==
  [][\A r \in Reqs :
       (InvalidTurnIndex(r) /\ StepOf(r)) =>
         /\ req'[r].pc # "a_llm"
         /\ Persisted' = Persisted
         /\ req'[r].pc = "done" => req'[r].resp >= 400]_vars

\* Request r is a join, with the invite code of session s, by a user who is
\* in the persisted roster of s.
JoinByMember(r, s) ==
  /\ req[r].kind = "join"
  /\ Persisted.sessions[s].exists /\ Persisted.sessions[s].invite = req[r].code
  /\ \E p \in Persisted.players[s] : p.user = req[r].uid

\* C39: with requests handled one at a time, a join by a user who is already
\* in the roster of the session leaves every roster as it is at each of its
\* steps and is answered 200 with the id of that session, whether or not the
\* session is full.
C39_JoinIdempotent ==
  [][\A r \in DOMAIN req : \A s \in Sessions :
       (JoinByMember(r, s) /\ StepOf(r)) =>
         /\ Persisted'.players = Persisted.players
         /\ req'[r].pc = "done" =>
              req'[r].resp = 200 /\ req'[r].sid = s]_vars

\* S1 takes two players and has them; u1, its creator, then asked to join
\* again (after u2's or u3's join was answered) and was answered 200.
C39_Witness ==
  /\ FullSession("S1")
  /\ Persisted.sessions["S1"].maxp = 2
  /\ \E r, o \in DOMAIN req :
       /\ o < r
       /\ req[o].kind = "join" /\ req[o].pc = "done" /\ req[o].resp = 200
       /\ req[o].uid # "u1"
       /\ \E p \in Persisted.players["S1"] : p.user = req[o].uid
       /\ req[r].kind = "join" /\ req[r].pc = "done" /\ req[r].resp = 200
       /\ req[r].uid = "u1" /\ req[r].sid = "S1"









====
